---------------------------- MODULE Spec2Model ----------------------------
(***************************************************************************)
(* A model of cnv_analyzer.py: vcf_parser.cnv_line_finder (the line       *)
(* scanner), vcf_parser._info_parser (the field extractor) and            *)
(* vcf_parser._stats_writer (the report), run once as                     *)
(* vcf_parser(...)._stats_writer() does.                                   *)
(*                                                                         *)
(* Python strings are TLA+ strings; the string operators below are the    *)
(* str / re operations the code calls, computed character by character.   *)
(***************************************************************************)
EXTENDS Integers, Sequences, FiniteSets, TLC

(***************************************************************************)
(* Python str and re operations                                            *)
(***************************************************************************)
Ch(s, k) == SubSeq(s, k, k)

Digits == {"0", "1", "2", "3", "4", "5", "6", "7", "8", "9"}

\* the characters str.strip() / str.rstrip() remove by default
Whitespace == {" ", "\t", "\n", "\r"}

\* s[a:b] with Python's clamping (a, b >= 0)
Slice(s, a, b) == SubSeq(s, a + 1, IF b < Len(s) THEN b ELSE Len(s))

\* the 1-based index of the first occurrence of sub in s, 0 if there is none
\* (str.find + 1)
Find(s, sub) ==
    LET hits == {k \in 1..(Len(s) - Len(sub) + 1) : SubSeq(s, k, k + Len(sub) - 1) = sub}
    IN  IF hits = {} THEN 0 ELSE CHOOSE k \in hits : \A m \in hits : k <= m

\* `sub in s`, and re.search of a pattern without metacharacters
Contains(s, sub) == Find(s, sub) # 0

\* str.isdigit()
IsDigit(s) == s # "" /\ \A k \in 1..Len(s) : Ch(s, k) \in Digits

RECURSIVE RStrip(_)
RStrip(s) ==
    IF s # "" /\ Ch(s, Len(s)) \in Whitespace THEN RStrip(SubSeq(s, 1, Len(s) - 1)) ELSE s

RECURSIVE LStrip(_)
LStrip(s) ==
    IF s # "" /\ Ch(s, 1) \in Whitespace THEN LStrip(SubSeq(s, 2, Len(s))) ELSE s

\* str.strip()
Strip(s) == LStrip(RStrip(s))

\* str.split(sep): every occurrence of sep separates two items
RECURSIVE Split(_, _)
Split(s, sep) ==
    LET k == Find(s, sep)
    IN  IF k = 0 THEN <<s>>
        ELSE <<SubSeq(s, 1, k - 1)>> \o Split(SubSeq(s, k + Len(sep), Len(s)), sep)

\* str.split(sep, 1): at most one split, at the first occurrence of sep
Split1(s, sep) ==
    LET k == Find(s, sep)
    IN  IF k = 0 THEN <<s>>
        ELSE <<SubSeq(s, 1, k - 1), SubSeq(s, k + Len(sep), Len(s))>>

\* re.split("\t+", s): a run of tabs separates two items
RECURSIVE ReSplitTabs(_)
ReSplitTabs(s) ==
    LET k == Find(s, "\t")
    IN  IF k = 0 THEN <<s>>
        ELSE LET rest  == SubSeq(s, k + 1, Len(s))
                 after == {m \in 1..Len(rest) : Ch(rest, m) # "\t"}
                 nxt   == IF after = {} THEN Len(rest) + 1
                          ELSE CHOOSE m \in after : \A n \in after : m <= n
             IN  <<SubSeq(s, 1, k - 1)>> \o ReSplitTabs(SubSeq(rest, nxt, Len(rest)))

\* re.sub("[^0-9]", repl, s): every character that is no digit becomes repl
RECURSIVE ReSubNonDigit(_, _)
ReSubNonDigit(s, repl) ==
    IF s = "" THEN ""
    ELSE (IF Ch(s, 1) \in Digits THEN Ch(s, 1) ELSE repl)
             \o ReSubNonDigit(SubSeq(s, 2, Len(s)), repl)

\* str.replace(old, new), and re.sub(old, new, s) for an `old` of digits: the
\* occurrences of old, leftmost first and not overlapping, become new.  An
\* empty pattern with an empty replacement leaves s as it is.
RECURSIVE ReplaceAll(_, _, _)
ReplaceAll(s, old, new) ==
    LET k == Find(s, old)
    IN  IF old = "" \/ k = 0 THEN s
        ELSE SubSeq(s, 1, k - 1) \o new
                 \o ReplaceAll(SubSeq(s, k + Len(old), Len(s)), old, new)

\* sep.join(items)
RECURSIVE Join(_, _)
Join(items, sep) ==
    IF items = <<>> THEN ""
    ELSE IF Len(items) = 1 THEN items[1]
    ELSE items[1] \o sep \o Join(Tail(items), sep)

\* int(s) of a digit string
RECURSIVE StrToInt(_)
StrToInt(s) ==
    IF s = "" THEN 0
    ELSE 10 * StrToInt(SubSeq(s, 1, Len(s) - 1))
             + (CHOOSE d \in 0..9 : Ch("0123456789", d + 1) = Ch(s, Len(s)))

\* str(n) of a natural number
RECURSIVE IntToStr(_)
IntToStr(n) ==
    IF n < 10 THEN Ch("0123456789", n + 1)
    ELSE IntToStr(n \div 10) \o Ch("0123456789", (n % 10) + 1)


(***************************************************************************)
(* Inputs: the file's lines, as open(self.vcf_fl) yields them              *)
(***************************************************************************)
vcf_fl == "a_sample.cnv.vcf"

RefLine    == "##reference=hg38\n"
HeaderLine == "#CHROM\tPOS\tID\tREF\tALT\tQUAL\tFILTER\tINFO\tFORMAT\tS1\n"

\* a deletion on a numbered chromosome
DelLine   == "chr1\t1000\tDRAGEN:LOSS:chr1:1000-2000\tN\t<DEL>\t40\tPASS\tSVLEN=-1000;END=2000\tGT\t0/1\n"
\* a duplication on a numbered chromosome, starting where DelLine ends
DupLine   == "chr1\t2000\tDRAGEN:GAIN:chr1:2000-3000\tN\t<DUP>\t55\tcnvQual\tSVLEN=1000;END=3000\tGT\t1/1\n"
\* a duplication on a chromosome whose name has no digit
XLine     == "chrX\t1000\tDRAGEN:GAIN:chrX:1000-2000\tN\t<DUP>\t10\tPASS\tSVLEN=1000;END=2000\tGT\t1/1\n"
\* a deletion whose start digits occur inside its end
NestLine  == "chr2\t200\tDRAGEN:LOSS:chr2:200-2000\tN\t<DEL>\t3\tPASS\tSVLEN=-1800;END=2000\tGT\t0/1\n"
\* a duplication whose FILTER is neither PASS nor cnvQual
RatioLine == "chr3\t2000\tDRAGEN:GAIN:chr3:2000-4000\tN\t<DUP>\t7\tcnvCopyRatio\tSVLEN=2000;END=4000\tGT\t1/1\n"
\* a deletion of another caller: no field contains DRAGEN:
PlainLine == "chr4\t500\tcnv7\tN\t<DEL>\t20\tPASS\tSVLEN=-100;END=600\tGT\t0/1\n"
\* a multi-allelic record: both markers in one line
BothLine  == "chr5\t3000\tDRAGEN:REF:chr5:3000-5000\tN\t<DEL>,<DUP>\t30\tPASS\tSVLEN=2000;END=5000\tGT\t1/2\n"
\* a chromosome line that is no CNV
SnvLine   == "chr1\t700\trs1\tA\tG\t99\tPASS\tDP=10\tGT\t0/1\n"
\* a CNV record whose chromosome name lacks the chr prefix
BareLine  == "1\t100\tDRAGEN:GAIN:1:100-900\tN\t<DUP>\t12\tPASS\tSVLEN=800;END=900\tGT\t1/1\n"

MaxLines == 3

BoundedSeq(S, n) == UNION {[1..k -> S] : k \in 0..n}

\* the header lines a file starts with: each of the two is there or not
Headers    == {<<>>, <<RefLine>>, <<HeaderLine>>, <<RefLine, HeaderLine>>}
\* the data lines of the files the scanner is run on
DataLines  == {DelLine, DupLine, SnvLine, BareLine}
\* the CNV lines of the files a position is queried in
CnvLines   == {DelLine, DupLine, XLine, NestLine, RatioLine, PlainLine, BothLine}
\* the CNV lines of the files the type filters are run on
TypedLines == {DelLine, DupLine, BothLine}
\* the values of -inf
Queries    == {<<"abc">>, <<"1000">>, <<"2000">>}

\* Python's None, and a name that was never assigned, are the empty tuple;
\* a value v is <<v>>
None    == <<>>
Unbound == <<>>

(***************************************************************************)
(* State                                                                   *)
(***************************************************************************)
VARIABLES
    vcf,              \* the lines of the file self.vcf_fl
    disp_info,        \* self.disp_info
    find_only_dups,   \* self.find_only_dups
    find_only_dels,   \* self.find_only_dels
    pc,               \* the function that is running
    lineno,           \* cnv_line_finder: the next line of the file
    counter,          \* cnv_line_finder: counter
    out_lst,          \* cnv_line_finder: out_lst
    sample,           \* cnv_line_finder: sample
    ref,              \* cnv_line_finder: ref
    lst_of_cnv_lines, \* _info_parser: what cnv_line_finder returned
    i,                \* _info_parser: the next line of lst_of_cnv_lines
    df,               \* _info_parser: the rows of df
    indv_entities,    \* _info_parser: indv_entities
    ret,              \* what _info_parser returned
    exc,              \* the exception raised, and the function that raised it
    report            \* what _stats_writer wrote

vars == <<vcf, disp_info, find_only_dups, find_only_dels, pc, lineno, counter,
          out_lst, sample, ref, lst_of_cnv_lines, i, df, indv_entities, ret,
          exc, report>>

NoExc == [type |-> "", msg |-> "", in |-> ""]

EmptyDict == [k \in {} |-> ""]

\* ret before _info_parser returns
NoReturn == [len |-> 0, df |-> <<>>, single_entry |-> EmptyDict, ref |-> ""]

\* the columns of df; the tenth is named after the sample
NumColumns == 10

\* the place-holder row of df
PlaceHolder == [c \in 1..NumColumns |-> "0"]

InitLocals ==
    /\ pc = "cnv_line_finder"
    /\ lineno = 1
    /\ counter = 0
    /\ out_lst = <<>>
    /\ sample = Unbound
    /\ ref = Unbound
    /\ lst_of_cnv_lines = <<>>
    /\ i = 1
    /\ df = <<>>
    /\ indv_entities = EmptyDict
    /\ ret = NoReturn
    /\ exc = NoExc
    /\ report = <<>>

\* a file with or without its header lines, read with the constructor's defaults
Init ==
    /\ vcf \in {h \o d : h \in Headers, d \in BoundedSeq(DataLines, MaxLines)}
    /\ disp_info = None
    /\ find_only_dups = FALSE
    /\ find_only_dels = FALSE
    /\ InitLocals

\* a file of CNV lines under both header lines, queried for a position
InitQuery ==
    /\ vcf \in {<<RefLine, HeaderLine>> \o d : d \in BoundedSeq(CnvLines, MaxLines)}
    /\ disp_info \in Queries
    /\ find_only_dups = FALSE
    /\ find_only_dels = FALSE
    /\ InitLocals

\* a file of CNV lines under both header lines, read with each pair of type filters
InitFilter ==
    /\ vcf \in {<<RefLine, HeaderLine>> \o d : d \in BoundedSeq(TypedLines, MaxLines)}
    /\ disp_info = None
    /\ find_only_dups \in BOOLEAN
    /\ find_only_dels \in BOOLEAN
    /\ InitLocals

(***************************************************************************)
(* cnv_line_finder                                                         *)
(***************************************************************************)
cnvs == <<"<DUP>", "<DEL>">>

\* line[0:3] == "chr"
IsChromLine(line) == Slice(line, 0, 3) = "chr"

\* "<DUP>" in line or "<DEL>" in line
IsCnvLine(line) == Contains(line, "<DUP>") \/ Contains(line, "<DEL>")

\* line.split("\t")[-1]
LastTabField(line) == LET f == Split(line, "\t") IN f[Len(f)]

\* raise_cnv_err naming cnvs[0] alone
raise_cnv_err_FirstMarkerOnly(f) ==
    [type |-> "NoCnvFoundError",
     msg  |-> "Unable to find any cnv's in file: " \o f
              \o ". File must contain at least one of the following cnv's: "
              \o cnvs[1],
     in   |-> "cnv_line_finder"]

raise_cnv_err(f) ==
    [type |-> "NoCnvFoundError",
     msg  |-> "Unable to find any cnv's in file: " \o f
              \o ". File must contain at least one of the following cnv's: "
              \o Join(cnvs, ", "),
     in   |-> "cnv_line_finder"]

\* FinderExit with `len(out_lst) > 0` tested before `counter == 0`
FinderExit_CnvCheckFirst(n, lst, smp, rf) ==
    IF ~(Len(lst) > 0)
    THEN [type |-> "NoCnvFoundError", msg |-> "", in |-> "cnv_line_finder"]
    ELSE IF n = 0
    THEN [type |-> "RuntimeError",
          msg  |-> "Unable to locate the first chromosome entry. Every chromosome entry must start with the chr character.",
          in   |-> "cnv_line_finder"]
    ELSE IF smp = Unbound
    THEN [type |-> "UnboundLocalError", msg |-> "sample", in |-> "cnv_line_finder"]
    ELSE IF rf = Unbound
    THEN [type |-> "UnboundLocalError", msg |-> "ref", in |-> "cnv_line_finder"]
    ELSE NoExc

\* the statements after the loop: what cnv_line_finder raises, NoExc when it returns
FinderExit(n, lst, smp, rf) ==
    IF n = 0
    THEN [type |-> "RuntimeError",
          msg  |-> "Unable to locate the first chromosome entry. Every chromosome entry must start with the chr character.",
          in   |-> "cnv_line_finder"]
    ELSE IF ~(Len(lst) > 0) THEN raise_cnv_err(vcf_fl)
    ELSE IF smp = Unbound
    THEN [type |-> "UnboundLocalError", msg |-> "sample", in |-> "cnv_line_finder"]
    ELSE IF rf = Unbound
    THEN [type |-> "UnboundLocalError", msg |-> "ref", in |-> "cnv_line_finder"]
    ELSE NoExc

\* one iteration of `for line in vcf`
ScanLine ==
    /\ pc = "cnv_line_finder"
    /\ lineno <= Len(vcf)
    /\ LET line == RStrip(vcf[lineno])
       IN  /\ ref' = IF Contains(line, "#reference") THEN <<line>> ELSE ref
           /\ sample' = IF Contains(line, "#CHROM") THEN <<LastTabField(line)>> ELSE sample
           /\ counter' = IF IsChromLine(line) THEN counter + 1 ELSE counter
           /\ out_lst' = IF IsChromLine(line) /\ IsCnvLine(line)
                         THEN Append(out_lst, line) ELSE out_lst
    /\ lineno' = lineno + 1
    /\ UNCHANGED <<vcf, disp_info, find_only_dups, find_only_dels, pc,
                   lst_of_cnv_lines, i, df, indv_entities, ret, exc, report>>

\* the end of the file: cnv_line_finder raises, or returns to _info_parser,
\* which builds df with its place-holder row
ScanReturn ==
    /\ pc = "cnv_line_finder"
    /\ lineno > Len(vcf)
    /\ LET e == FinderExit(counter, out_lst, sample, ref)
       IN  IF e # NoExc
           THEN /\ exc' = e
                /\ pc' = "raised"
                /\ UNCHANGED <<lst_of_cnv_lines, df>>
           ELSE /\ lst_of_cnv_lines' = out_lst
                /\ df' = <<PlaceHolder>>
                /\ pc' = "_info_parser"
                /\ exc' = exc
    /\ UNCHANGED <<vcf, disp_info, find_only_dups, find_only_dels, lineno, counter,
                   out_lst, sample, ref, i, indv_entities, ret, report>>


(***************************************************************************)
(* _info_parser                                                            *)
(***************************************************************************)
\* search(compile(r"^[^\t]*"), i).group(0)
Chrom(line) == Split1(line, "\t")[1]

\* d[k] = v
DictSet(d, k, v) == [x \in DOMAIN d \cup {k} |-> IF x = k THEN v ELSE d[x]]

\* The end coordinate recovered from a field that contains DRAGEN: -- <<end>>,
\* or <<>> when start_end.split(" ", 1)[1] raises IndexError
EndOf(pos) ==
    LET cleaned == Strip(ReplaceAll(ReSubNonDigit(pos, ", "), ",", ""))
        parts   == Split1(cleaned, " ")
    IN  IF Len(parts) < 2 THEN <<>>
        ELSE LET start_end == parts[2]
                 start_ref == Split1(start_end, " ")[1]
             IN  <<Strip(ReplaceAll(start_end, start_ref, ""))>>

\* The quality score of line i, given the end coordinate; exc is the
\* exception i.split(end, 1)[1] raises
QcScore(line, end) ==
    IF end = "" THEN [exc |-> "ValueError", score |-> ""]
    ELSE LET parts == Split1(line, end)
         IN  IF Len(parts) < 2 THEN [exc |-> "IndexError", score |-> ""]
             ELSE [exc   |-> "",
                   score |-> ReSubNonDigit(Split1(parts[2], "SVLEN")[1], "")]

\* indv_entities["cnv_type"]: DUP is looked for first
WithCnvType(d, line) ==
    IF Contains(line, "<DUP>") THEN DictSet(d, "cnv_type", "<DUP>")
    ELSE IF Contains(line, "<DEL>") THEN DictSet(d, "cnv_type", "<DEL>")
    ELSE d

\* indv_entities["filter"]: set only when the line has cnvQual or PASS
WithFilter(d, line) ==
    IF Contains(line, "cnvQual") THEN DictSet(d, "filter", "cnvQual")
    ELSE IF Contains(line, "PASS") THEN DictSet(d, "filter", "PASS")
    ELSE d

\* the block run when disp_info is a digit string equal to start or end
Populate(d, line, smp, start, end) ==
    LET d1 == DictSet(DictSet(DictSet(DictSet(d, "sample", smp),
                  "chromosome", Chrom(line)), "start", start), "end", end)
        d2 == WithCnvType(d1, line)
        qc == QcScore(line, end)
    IN  IF qc.exc # ""
        THEN [ent |-> d, exc |-> qc.exc]
        ELSE [ent |-> WithFilter(DictSet(d2, "score", qc.score), line), exc |-> ""]

\* does disp_info select the entry with these coordinates
QueryMatches(q, start, end) == IsDigit(q) /\ (q = start \/ q = end)

\* One iteration of `for pos in startpos`.  st.start is "[]" while start is
\* still the empty list.
FieldStep(line, pos, st, q, smp) ==
    LET st1 == IF IsDigit(pos) /\ st.counter = 0
               THEN [st EXCEPT !.start = pos, !.counter = 1]
               ELSE st
    IN  IF ~Contains(pos, "DRAGEN:") THEN st1
        ELSE LET e == EndOf(pos)
             IN  IF e = <<>> THEN [st1 EXCEPT !.exc = "IndexError"]
                 ELSE IF q = None THEN st1
                 ELSE IF QueryMatches(q[1], st1.start, e[1])
                 THEN LET p == Populate(st1.ent, line, smp, st1.start, e[1])
                      IN  [st1 EXCEPT !.ent = p.ent, !.exc = p.exc]
                 ELSE IF ~IsDigit(q[1]) THEN [st1 EXCEPT !.exc = "TypeError"]
                 ELSE st1

\* `for pos in startpos`, up to the first exception
RECURSIVE FieldLoop(_, _, _, _, _)
FieldLoop(line, fields, st, q, smp) ==
    IF fields = <<>> \/ st.exc # "" THEN st
    ELSE FieldLoop(line, Tail(fields), FieldStep(line, Head(fields), st, q, smp), q, smp)

\* AddsRow with the two flags together read as no filter
AddsRow_BothMeansAll(line, dups, dels) ==
    IF dups /\ dels THEN IsCnvLine(line)
    ELSE IF dups THEN Contains(line, "<DUP>")
    ELSE IF dels THEN Contains(line, "<DEL>")
    ELSE IsCnvLine(line)

\* which lines the requested type filter puts in df
AddsRow(line, dups, dels) ==
    IF dups THEN Contains(line, "<DUP>")
    ELSE IF dels THEN Contains(line, "<DEL>")
    ELSE IF ~(dups /\ dels) THEN IsCnvLine(line)
    ELSE FALSE

\* _add_to_df: the row written to d.loc[len(d)]
RowOf(line) == Split(ReplaceAll(line, "\t", " "), " ")

\* one iteration of `for i in lst_of_cnv_lines`
ParseLine ==
    /\ pc = "_info_parser"
    /\ i <= Len(lst_of_cnv_lines)
    /\ LET line == lst_of_cnv_lines[i]
           st   == FieldLoop(line, ReSplitTabs(line),
                             [start |-> "[]", counter |-> 0, ent |-> indv_entities, exc |-> ""],
                             disp_info, sample[1])
           adds == AddsRow(line, find_only_dups, find_only_dels)
           bad  == IF st.exc # "" THEN st.exc
                   ELSE IF adds /\ Len(RowOf(line)) # NumColumns THEN "ValueError"
                   ELSE ""
       IN  IF bad # ""
           THEN /\ exc' = [type |-> bad,
                           msg  |-> IF bad = "TypeError" THEN "-inf argument must be an integer. "
                                        \o disp_info[1] \o " is not an integer." ELSE "",
                           in   |-> "_info_parser"]
                /\ pc' = "raised"
                /\ UNCHANGED <<i, df, indv_entities>>
           ELSE /\ indv_entities' = st.ent
                /\ df' = IF adds THEN Append(df, RowOf(line)) ELSE df
                /\ i' = i + 1
                /\ UNCHANGED <<pc, exc>>
    /\ UNCHANGED <<vcf, disp_info, find_only_dups, find_only_dels, lineno, counter,
                   out_lst, sample, ref, lst_of_cnv_lines, ret, report>>

\* `if self.disp_info`
Truthy(q) == q # None /\ q[1] # ""

\* After the loop: _info_parser drops the place-holder row and returns two or
\* three values, which _stats_writer unpacks into three names when disp_info
\* is set and into two when it is not.
ParseReturn ==
    /\ pc = "_info_parser"
    /\ i > Len(lst_of_cnv_lines)
    /\ LET n == IF Cardinality(DOMAIN indv_entities) > 0 THEN 3 ELSE 2
       IN  /\ ret' = [len |-> n, df |-> Tail(df), single_entry |-> indv_entities, ref |-> ref[1]]
           /\ IF n = (IF Truthy(disp_info) THEN 3 ELSE 2)
              THEN pc' = "_stats_writer" /\ exc' = exc
              ELSE /\ pc' = "raised"
                   /\ exc' = [type |-> "ValueError", msg |-> "unpack", in |-> "_stats_writer"]
    /\ UNCHANGED <<vcf, disp_info, find_only_dups, find_only_dels, lineno, counter,
                   out_lst, sample, ref, lst_of_cnv_lines, i, df, indv_entities, report>>


(***************************************************************************)
(* _stats_writer                                                           *)
(***************************************************************************)
\* the position of a named column of df
ColIndex(name) ==
    CHOOSE k \in 1..9 :
        <<"CHROM", "POS", "ID", "REF", "ALT", "QUAL", "FILTER", "INFO", "FORMAT">>[k] = name

\* df[name].tolist()
Column(table, name) == [k \in 1..Len(table) |-> table[k][ColIndex(name)]]

\* The rows of table whose ALT is not `alt` (dups_df, dels_df) and those whose
\* ALT is `alt` (df_dups, df_dels)
RECURSIVE RowsWhere(_, _, _)
RowsWhere(table, alt, equal) ==
    IF table = <<>> THEN <<>>
    ELSE (IF (Head(table)[ColIndex("ALT")] = alt) = equal THEN <<Head(table)>> ELSE <<>>)
             \o RowsWhere(Tail(table), alt, equal)

\* Series.value_counts(): the distinct values with their counts, the larger
\* count first; equal counts keep the order of first appearance
ValueCounts(col) ==
    LET vals     == {col[k] : k \in 1..Len(col)}
        count(v) == Cardinality({k \in 1..Len(col) : col[k] = v})
        first(v) == CHOOSE k \in 1..Len(col) : col[k] = v /\ \A m \in 1..(k - 1) : col[m] # v
        rank(v)  == 1 + Cardinality({u \in vals : \/ count(u) > count(v)
                                                  \/ count(u) = count(v) /\ first(u) < first(v)})
    IN  [r \in 1..Cardinality(vals) |->
            LET v == CHOOSE u \in vals : rank(u) = r
            IN  [value |-> v, count |-> count(v)]]

\* df[...]["QUAL"].value_counts().describe() -> count, as __count_cnv prints it
UniqueCount(table) ==
    LET q == Column(table, "QUAL")
    IN  IntToStr(Cardinality({q[k] : k \in 1..Len(q)}))

\* can __max / __min compute: every QUAL converts with int(), and there is one
QualsOk(table) ==
    /\ table # <<>>
    /\ \A k \in 1..Len(table) : IsDigit(table[k][ColIndex("QUAL")])

\* __max(dframe)
Max(table) ==
    LET q == {StrToInt(table[k][ColIndex("QUAL")]) : k \in 1..Len(table)}
    IN  IntToStr(CHOOSE x \in q : \A y \in q : y <= x)

\* __min(dframe)
Min(table) ==
    LET q == {StrToInt(table[k][ColIndex("QUAL")]) : k \in 1..Len(table)}
    IN  IntToStr(CHOOSE x \in q : \A y \in q : x <= y)

\* the labels all_cnvs.index is set to
EntIndex(dups, dels) ==
    IF dups THEN <<"DUPS">> ELSE IF dels THEN <<"DELS">> ELSE <<"DUPS", "DELS">>

\* all_cnvs.get(key = label) after the index was relabelled, as str() prints it
CountLabelled(all_cnvs, index, label) ==
    IF \E k \in 1..Len(index) : index[k] = label
    THEN <<IntToStr(all_cnvs[CHOOSE k \in 1..Len(index) : index[k] = label].count)>>
    ELSE None

\* the names the report calls dups_df and dels_df
DupsDf(table, dups, dels) ==
    IF dups THEN table ELSE IF dels THEN <<>> ELSE RowsWhere(table, "<DEL>", FALSE)

DelsDf(table, dups, dels) ==
    IF dups THEN <<>> ELSE IF dels THEN table ELSE RowsWhere(table, "<DUP>", FALSE)

\* `"<DEL>" and "<DUP>" in set(df["ALT"])`
HasDupAlt(table) == \E k \in 1..Len(table) : table[k][ColIndex("ALT")] = "<DUP>"

\* The exception _stats_writer raises after _info_parser returned, "" if none
WriterExc(table, dups, dels) ==
    LET all_cnvs == ValueCounts(Column(table, "ALT"))
    IN  IF Len(all_cnvs) # Len(EntIndex(dups, dels)) THEN "ValueError"
        ELSE IF (dups \/ ~dels) /\ ~QualsOk(DupsDf(table, dups, dels)) THEN "ValueError"
        ELSE IF (~dups) /\ ~QualsOk(DelsDf(table, dups, dels)) THEN "ValueError"
        ELSE IF ~HasDupAlt(table) THEN "AttributeError"
        ELSE ""

\* what _stats_writer writes to self.out
Report(table, rf, dups, dels) ==
    LET all_cnvs == ValueCounts(Column(table, "ALT"))
        index    == EntIndex(dups, dels)
        dups_df  == DupsDf(table, dups, dels)
        dels_df  == DelsDf(table, dups, dels)
        has_dups == dups \/ ~dels
        has_dels == ~dups
    IN  [ref    |-> ReplaceAll(ReplaceAll(rf, "reference=", ""), "#", ""),
         types  |-> (IF dups THEN <<"DUP">> ELSE <<>>)
                      \o (IF dels THEN <<"DEL">> ELSE <<>>)
                      \o (IF ~(dups /\ dels) THEN <<"DUP, DEL">> ELSE <<>>),
         total  |-> IntToStr(Len(table)),
         num_of_df_dups    |-> CountLabelled(all_cnvs, index, "DUPS"),
         num_of_df_dels    |-> CountLabelled(all_cnvs, index, "DELS"),
         unique_dups_count |-> IF has_dups THEN <<UniqueCount(RowsWhere(table, "<DUP>", TRUE))>> ELSE None,
         unique_dels_count |-> IF has_dels THEN <<UniqueCount(RowsWhere(table, "<DEL>", TRUE))>> ELSE None,
         max_qual_dups     |-> IF has_dups THEN <<Max(dups_df)>> ELSE None,
         min_qual_dups     |-> IF has_dups THEN <<Min(dups_df)>> ELSE None,
         max_qual_dels     |-> IF has_dels THEN <<Max(dels_df)>> ELSE None,
         min_qual_dels     |-> IF has_dels THEN <<Min(dels_df)>> ELSE None,
         rows   |-> table]

\* the statements of _stats_writer after _info_parser returned
StatsWriter ==
    /\ pc = "_stats_writer"
    /\ LET e == WriterExc(ret.df, find_only_dups, find_only_dels)
       IN  IF e # ""
           THEN /\ exc' = [type |-> e, msg |-> "", in |-> "_stats_writer"]
                /\ pc' = "raised"
                /\ UNCHANGED report
           ELSE /\ report' = <<Report(ret.df, ret.ref, find_only_dups, find_only_dels)>>
                /\ pc' = "done"
                /\ UNCHANGED exc
    /\ UNCHANGED <<vcf, disp_info, find_only_dups, find_only_dels, lineno, counter,
                   out_lst, sample, ref, lst_of_cnv_lines, i, df, indv_entities, ret>>

\* An exception leaves _stats_writer: a ValueError out of the try block around
\* _info_parser becomes NotCnvError, any other exception propagates as it is
Except ==
    /\ pc = "raised"
    /\ pc' = "failed"
    /\ exc' = IF /\ Truthy(disp_info)
                 /\ exc.type = "ValueError"
                 /\ exc.in \in {"cnv_line_finder", "_info_parser"} \/ exc.msg = "unpack"
              THEN [type |-> "NotCnvError",
                    msg  |-> "User entry might not be a cnv. Check if entry "
                             \o disp_info[1] \o " is a cnv.",
                    in   |-> "_stats_writer"]
              ELSE exc
    /\ UNCHANGED <<vcf, disp_info, find_only_dups, find_only_dels, lineno, counter,
                   out_lst, sample, ref, lst_of_cnv_lines, i, df, indv_entities, ret,
                   report>>

Next == ScanLine \/ ScanReturn \/ ParseLine \/ ParseReturn \/ StatsWriter \/ Except

Spec == Init /\ [][Next]_vars

SpecQuery == InitQuery /\ [][Next]_vars

SpecFilter == InitFilter /\ [][Next]_vars

(***************************************************************************)
(* The vocabulary of the claims, stated on the file and not on the code    *)
(***************************************************************************)
\* a line of the file without its line terminator
Chomp(l) == IF Len(l) > 0 /\ Ch(l, Len(l)) = "\n" THEN SubSeq(l, 1, Len(l) - 1) ELSE l

StartsWithChr(l) == Len(l) >= 3 /\ SubSeq(l, 1, 3) = "chr"

HasMarker(l) == Contains(l, "<DUP>") \/ Contains(l, "<DEL>")

\* DUP if the line has the DUP marker, else DEL if it has the DEL marker
TypeOf(l) ==
    IF Contains(l, "<DUP>") THEN "<DUP>" ELSE IF Contains(l, "<DEL>") THEN "<DEL>" ELSE ""

IsMatching(l) == StartsWithChr(l) /\ HasMarker(l)
IsDupType(l)  == TypeOf(l) = "<DUP>"
IsDelType(l)  == TypeOf(l) = "<DEL>"

\* the CNV-bearing chromosome lines of the file, in file order
MatchingLines == LET all == SelectSeq(vcf, IsMatching) IN [k \in 1..Len(all) |-> Chomp(all[k])]

NoChromLine == \A k \in 1..Len(vcf) : ~StartsWithChr(vcf[k])

HasLineWith(marker) == \E k \in 1..Len(vcf) : Contains(vcf[k], marker)

FinderOver     == pc # "cnv_line_finder"
FinderRaised   == pc \in {"raised", "failed"} /\ exc.in = "cnv_line_finder"
FinderReturned == FinderOver /\ ~FinderRaised

\* _info_parser has returned, or its exception is in flight
ParserReturned == ret.len # 0
ParserRaised   == pc = "raised" /\ exc.in = "_info_parser"

\* the lines the returned table holds, row by row
TableLines == [k \in 1..Len(ret.df) |-> Join(ret.df[k], "\t")]

\* the tab-separated fields of a record
Field(l, k) == Split(l, "\t")[k]

\* the ID field has the form DRAGEN:<kind>:chr<C>:<s>-<e>, s the POS field, s < e
WellFormedId(l) ==
    LET id     == Split(Field(l, 3), ":")
        coords == Split(id[4], "-")
    IN  /\ Len(id) = 4
        /\ id[1] = "DRAGEN"
        /\ StartsWithChr(id[3])
        /\ Len(coords) = 2
        /\ IsDigit(coords[1]) /\ IsDigit(coords[2])
        /\ coords[1] = Field(l, 2)
        /\ StrToInt(coords[1]) < StrToInt(coords[2])

StartCoord(l) == Field(l, 2)
EndCoord(l)   == Split(Split(Field(l, 3), ":")[4], "-")[2]

(***************************************************************************)
(* C1: for a file with M >= 1 CNV-bearing chromosome lines,                *)
(* cnv_line_finder returns exactly those M lines, each once, in file       *)
(* order.  Stated for the files that have the #CHROM line.  Violated: the   *)
(* function returns only when the file has a #reference line too (see C4). *)
(***************************************************************************)
C1_ReturnsMatchingLines ==
    (FinderOver /\ Len(MatchingLines) >= 1 /\ HasLineWith("#CHROM"))
        => (FinderReturned /\ lst_of_cnv_lines = MatchingLines)

(***************************************************************************)
(* C2: for a file, the empty one included, in which no line starts with   *)
(* chr, cnv_line_finder fails with the RuntimeError 'Unable to locate the  *)
(* first chromosome entry', never with the no-variants error, whatever     *)
(* markers the other lines hold.                                           *)
(***************************************************************************)
C2_NoChromLineIsMalformed ==
    (FinderOver /\ NoChromLine)
        => /\ FinderRaised
           /\ exc.type = "RuntimeError"
           /\ Contains(exc.msg, "Unable to locate the first chromosome entry")

\* C2 witness: a file with both header lines and a <DUP> record without the
\* chr prefix failed so
C2_Witness ==
    /\ pc = "raised" /\ exc.type = "RuntimeError"
    /\ NoChromLine
    /\ HasLineWith("<DUP>") /\ HasLineWith("#CHROM") /\ HasLineWith("#reference")

(***************************************************************************)
(* C3: for a file with a line starting with chr in which no chromosome    *)
(* line has <DUP> or <DEL>, cnv_line_finder fails with NoCnvFoundError,    *)
(* whose message names both markers, and returns no line list.             *)
(***************************************************************************)
C3_NoCnvLineIsNoVariants ==
    (FinderOver /\ ~NoChromLine /\ Len(MatchingLines) = 0)
        => /\ FinderRaised
           /\ exc.type = "NoCnvFoundError"
           /\ Contains(exc.msg, "<DUP>") /\ Contains(exc.msg, "<DEL>")
           /\ lst_of_cnv_lines = <<>>

\* C3 witness: a file with a chromosome line, and a marker only on a line
\* that is none, failed so
C3_Witness ==
    /\ pc = "raised" /\ exc.type = "NoCnvFoundError"
    /\ ~NoChromLine /\ Len(MatchingLines) = 0
    /\ HasLineWith("<DUP>")

(***************************************************************************)
(* C4: the #reference line is optional: a file with a #CHROM line and a   *)
(* CNV-bearing chromosome line but no #reference line is still scanned     *)
(* successfully.  Violated: `return out_lst, sample, ref` reads ref, which *)
(* was never assigned.                                                     *)
(***************************************************************************)
C4_ReferenceOptional ==
    (FinderOver /\ HasLineWith("#CHROM") /\ Len(MatchingLines) >= 1
                /\ ~HasLineWith("#reference"))
        => FinderReturned

(***************************************************************************)
(* C5: with find_only_dups alone the returned table holds exactly the     *)
(* lines of type DUP, with find_only_dels alone exactly the lines of type  *)
(* DEL (a line with both markers is DUP), with neither all lines; in file  *)
(* order, without the place-holder row.  Violated: the DEL-only filter     *)
(* keeps every line that contains <DEL>, a line with both markers too.     *)
(***************************************************************************)
C5_RowFilter ==
    ParserReturned =>
        /\ (find_only_dups /\ ~find_only_dels) => TableLines = SelectSeq(MatchingLines, IsDupType)
        /\ (find_only_dels /\ ~find_only_dups) => TableLines = SelectSeq(MatchingLines, IsDelType)
        /\ (~find_only_dups /\ ~find_only_dels) => TableLines = MatchingLines

(***************************************************************************)
(* C6: a query position that is no digit string makes extraction fail     *)
(* with the TypeError '-inf argument must be an integer' for every         *)
(* non-empty sequence of matching lines, and nothing is returned.          *)
(* Violated: the test sits inside the `if "DRAGEN:" in pos` block, so a    *)
(* file without such a field is extracted without the error.               *)
(***************************************************************************)
C6_NonDigitQueryFails ==
    (disp_info # None /\ ~IsDigit(disp_info[1]) /\ Len(MatchingLines) >= 1
        /\ (ParserReturned \/ ParserRaised))
        => /\ ParserRaised /\ ~ParserReturned
           /\ exc.type = "TypeError"
           /\ Contains(exc.msg, "-inf argument must be an integer")

(***************************************************************************)
(* C7: for a matching line with POS s and ID DRAGEN:<kind>:chr<C>:<s>-<e>, *)
(* querying s or e yields the single-entity match with start s, end e, the *)
(* line's type and its quality score, whatever C is and whether or not the *)
(* digits of s occur in e.  Violated: the end is what is left of the ID's  *)
(* digit groups after the first group is dropped and every occurrence of   *)
(* the second is deleted.                                                  *)
(***************************************************************************)
C7_EndRecovered ==
    (Len(lst_of_cnv_lines) = 1 /\ disp_info # None
        /\ (ParserReturned \/ ParserRaised)
        /\ WellFormedId(lst_of_cnv_lines[1])
        /\ disp_info[1] \in {StartCoord(lst_of_cnv_lines[1]), EndCoord(lst_of_cnv_lines[1])})
        => /\ ret.len = 3
           /\ ret.single_entry["start"] = StartCoord(lst_of_cnv_lines[1])
           /\ ret.single_entry["end"] = EndCoord(lst_of_cnv_lines[1])
           /\ ret.single_entry["cnv_type"] = TypeOf(lst_of_cnv_lines[1])
           /\ ret.single_entry["score"] = Field(lst_of_cnv_lines[1], 6)

(***************************************************************************)
(* C8: with no type filter, for a file with a DUP-type and b DEL-type      *)
(* CNV-bearing chromosome lines (a + b >= 1), _stats_writer completes and  *)
(* reports total a + b, a duplications and b deletions.  Stated for the    *)
(* files cnv_line_finder returns on.  Violated: the counts are labelled by *)
(* rank, the larger one DUPS, and two labels are set whatever the number   *)
(* of distinct ALT values.                                                 *)
(***************************************************************************)
C8_ReportCounts ==
    (FinderReturned /\ ~find_only_dups /\ ~find_only_dels
        /\ pc \in {"done", "raised", "failed"})
        => /\ pc = "done"
           /\ report[1].total = IntToStr(Len(MatchingLines))
           /\ report[1].num_of_df_dups = <<IntToStr(Len(SelectSeq(MatchingLines, IsDupType)))>>
           /\ report[1].num_of_df_dels = <<IntToStr(Len(SelectSeq(MatchingLines, IsDelType)))>>

(***************************************************************************)
(* C9: with find_only_dups and find_only_dels both set, _info_parser       *)
(* includes all matching lines, as with neither set.  Violated: the        *)
(* find_only_dups branch is taken first.                                   *)
(***************************************************************************)
C9_BothSetIncludesAll ==
    (find_only_dups /\ find_only_dels /\ ParserReturned) => TableLines = MatchingLines

(***************************************************************************)
(* C9, amended: with find_only_dups and find_only_dels both set, the table *)
(* _info_parser returns holds exactly the matching lines that contain      *)
(* <DUP>, in file order, as with find_only_dups alone.                     *)
(***************************************************************************)
C9_BothSetIsDupOnly ==
    (find_only_dups /\ find_only_dels /\ ParserReturned)
        => TableLines = SelectSeq(MatchingLines, IsDupType)

\* C9 witness: both flags set, a DUP line kept and a DEL line left out
C9_Witness ==
    /\ find_only_dups /\ find_only_dels /\ ParserReturned
    /\ Len(TableLines) >= 1
    /\ Len(TableLines) < Len(MatchingLines)

\* the lines whose start or end the query names, and the last of them
QueryHits(l) ==
    WellFormedId(l) /\ disp_info[1] \in {StartCoord(l), EndCoord(l)}

LastHit == LET hits == SelectSeq(lst_of_cnv_lines, QueryHits) IN hits[Len(hits)]

(***************************************************************************)
(* C10: when the query matches the start or end of several lines, the      *)
(* single-entity match returned describes the last of them: every field    *)
(* comes from that line and none, filter in particular, is carried over    *)
(* from an earlier matching line.  Stated for the lines whose end          *)
(* coordinate the code recovers (see C7).  Violated: indv_entities is one  *)
(* dictionary for the whole loop, and a line without PASS and cnvQual      *)
(* leaves the filter of the line before.                                   *)
(***************************************************************************)
C10_LastMatchWins ==
    (ParserReturned /\ ret.len = 3
        /\ \A k \in 1..Len(lst_of_cnv_lines) :
               WellFormedId(lst_of_cnv_lines[k])
                   => EndOf(Field(lst_of_cnv_lines[k], 3)) = <<EndCoord(lst_of_cnv_lines[k])>>)
        => /\ ret.single_entry["chromosome"] = Field(LastHit, 1)
           /\ ret.single_entry["start"] = StartCoord(LastHit)
           /\ ret.single_entry["end"] = EndCoord(LastHit)
           /\ ret.single_entry["cnv_type"] = TypeOf(LastHit)
           /\ ret.single_entry["score"] = Field(LastHit, 6)
           /\ "filter" \in DOMAIN ret.single_entry
                  => Contains(LastHit, ret.single_entry["filter"])

=============================================================================
